---------------------------- MODULE Spec2Model ----------------------------
(***************************************************************************)
(* A model of sql_with_cpp::CrudWrapper (include/crud-wrapper/             *)
(* CrudWrapper.hpp): the wrapper object that owns an sqlite3 handle, the   *)
(* PreparedStatement objects obtained from it, and the engine resources    *)
(* (handles, statements, tables of the database file) they act on.         *)
(*                                                                         *)
(* Pointers are naturals, 0 being nullptr.  The engine (sqlite3) is the    *)
(* environment: its calls are operators named after the C API, modelled    *)
(* from the documented behaviour of the calls the wrapper makes.           *)
(***************************************************************************)
EXTENDS Integers, Sequences, FiniteSets, TLC

VARIABLES
  fs,        \* the filesystem: path -> [exists, isDir, parent, tables]
  handles,   \* engine handles: id -> [open, path]
  stmts,     \* engine statements: id -> [open, db, sql, cols, param, cursor,
             \*   state, expired]
  objState,  \* CrudWrapper objects: "none" (not constructed, or destroyed) | "live"
  m_db,      \* CrudWrapper::m_db of each object (0 = nullptr)
  m_db_path, \* CrudWrapper::m_db_path of each object
  psState,   \* PreparedStatement objects: "none" | "live"
  m_stmt,    \* PreparedStatement::m_stmt of each object (0 = nullptr)
  ret        \* what the last operation did and returned

vars == <<fs, handles, stmts, objState, m_db, m_db_path, psState, m_stmt, ret>>

---------------------------------------------------------------------------
(* Bounds of the model *)

MaxHandles == 1
MaxRows == 2
(* The statements PreparedStatement objects hold at one time *)
MaxHeldStmts == 1

---------------------------------------------------------------------------
(* Objects and inputs *)

Wrappers == {"w1", "w2"}
PStmts == {"p1", "p2"}
HandleIds == 1..MaxHandles
StmtIds == 1..(Cardinality(PStmts) + 1)

MissingPath == "/non/existing/path"
AlbumDb == "db/album.db"
DirPath == "db"
(* A file that does not exist, in the directory that does *)
NewDb == "db/new.db"
Paths == {MissingPath, AlbumDb, DirPath, NewDb}

TableNames == {"album", "newTable", "nonExistingTable1"}
(* The table names given to peekColumnsNames and getRows; newTable does not
   exist until it is created and after it is dropped *)
ReadTables == {"album", "newTable"}
(* The object constructed from a path; the other ones are move targets *)
FirstWrapper == "w1"
(* The object initialized from prepareStatement; the other ones are move
   targets *)
FirstPStmt == "p1"

SQLITE_OK == "SQLITE_OK"
SQLITE_ERROR == "SQLITE_ERROR"
SQLITE_BUSY == "SQLITE_BUSY"
SQLITE_CANTOPEN == "SQLITE_CANTOPEN"
SQLITE_MISUSE == "SQLITE_MISUSE"
SQLITE_RANGE == "SQLITE_RANGE"
SQLITE_ROW == "SQLITE_ROW"
SQLITE_DONE == "SQLITE_DONE"

(* Stored values, by storage class *)
IntegerValue(n) == [type |-> "INTEGER", int |-> n, text |-> ""]
TextValue(s) == [type |-> "TEXT", int |-> 0, text |-> s]
NullValue == [type |-> "NULL", int |-> 0, text |-> ""]

NoTable == [exists |-> FALSE, cols |-> <<>>, rows |-> <<>>]
EmptyTables == [t \in TableNames |-> NoTable]

AlbumCols == <<"id", "title">>
NewTableCols == <<"column1", "column2">>

AlbumRows ==
  << <<IntegerValue(1), TextValue("Two Men with the Blues")>>,
     <<IntegerValue(17), TextValue("Apostrophe")>>,
     <<IntegerValue(-5), TextValue("Apostrophe")>> >>

AlbumTables(rows) ==
  [EmptyTables EXCEPT !["album"] =
     [exists |-> TRUE, cols |-> AlbumCols, rows |-> rows]]

(* SQL statements given to executeStatements, one record per statement *)
CreateTable(t, cols, ifNotExists) ==
  [op |-> "CREATE", table |-> t, guard |-> ifNotExists, cols |-> cols, vals |-> <<>>]
InsertInto(t, vals) ==
  [op |-> "INSERT", table |-> t, guard |-> FALSE, cols |-> <<>>, vals |-> vals]
DropTable(t, ifExists) ==
  [op |-> "DROP", table |-> t, guard |-> ifExists, cols |-> <<>>, vals |-> <<>>]

R1 == <<TextValue("r1c1"), TextValue("r1c2")>>
R2 == <<IntegerValue(17), TextValue("r2c2")>>
R3 == <<TextValue("r3c1"), NullValue>>

(* The texts given to executeStatements: the test's create-and-fill and drop
   scripts, a single insert, and scripts whose first or a later statement
   fails *)
Scripts ==
  { << DropTable("newTable", TRUE), CreateTable("newTable", NewTableCols, TRUE),
       InsertInto("newTable", R1), InsertInto("newTable", R2) >>,
    << DropTable("newTable", TRUE) >>,
    << DropTable("newTable", FALSE) >>,
    << InsertInto("newTable", R3) >>,
    << CreateTable("newTable", NewTableCols, FALSE),
       InsertInto("newTable", <<TextValue("r1c1")>>),
       InsertInto("newTable", R1) >>,
    << CreateTable("newTable", NewTableCols, TRUE), InsertInto("newTable", R3),
       DropTable("nonExistingTable1", FALSE) >> }

(* SQL given to prepareStatement: SELECT * FROM table [WHERE col = ?] *)
SelectAll(t) == [table |-> t, whereCol |-> 0]
SelectWhere(t, c) == [table |-> t, whereCol |-> c]
PreparedSqls ==
  { SelectWhere("newTable", 1), SelectAll("nonExistingTable1") }
BindTexts == {"r1c1", "r3c1"}
BindPositions == {1, 2}

(* What a read of std::string{nullptr} can do: the constructor throws
   std::logic_error out of a noexcept function (std::terminate), or reads
   through the null pointer. *)
UBOutcomes == {"terminate", "segfault"}

---------------------------------------------------------------------------
(* Text conversion done by the engine for sqlite3_column_text *)

Digits == <<"0", "1", "2", "3", "4", "5", "6", "7", "8", "9">>

RECURSIVE NatToText(_)
NatToText(n) ==
  IF n < 10 THEN Digits[n + 1]
  ELSE NatToText(n \div 10) \o Digits[(n % 10) + 1]

IntToText(n) == IF n < 0 THEN "-" \o NatToText(-n) ELSE NatToText(n)

NullPtr == [null |-> TRUE, str |-> ""]
CharPtr(s) == [null |-> FALSE, str |-> s]

ValueText(v) ==
  CASE v.type = "TEXT" -> CharPtr(v.text)
    [] v.type = "INTEGER" -> CharPtr(IntToText(v.int))
    [] OTHER -> NullPtr

---------------------------------------------------------------------------
(* The engine: handles *)

ClosedHandle == [open |-> FALSE, path |-> ""]
ClosedStmt ==
  [open |-> FALSE, db |-> 0, sql |-> SelectAll(""), cols |-> <<>>,
   param |-> NullValue, cursor |-> 0, state |-> "ready", expired |-> FALSE]

FreeHandles(hs) == {h \in HandleIds : ~hs[h].open}
FreeStmts(st) == {s \in StmtIds : ~st[s].open}
Lowest(S) == CHOOSE x \in S : \A y \in S : x <= y

(* std::filesystem::exists(path, err) *)
PathExists(path, files) == files[path].exists

(* sqlite3_open(path, &dbPtr): a handle is allocated whether or not the open
   succeeds; a directory cannot be opened; a missing file is created when
   its directory exists, and cannot be opened otherwise. *)
sqlite3_open(path, files, hs) ==
  LET h == Lowest(FreeHandles(hs))
      opened == [hs EXCEPT ![h] = [open |-> TRUE, path |-> path]]
  IN IF files[path].isDir \/ (~files[path].exists /\ ~files[path].parent)
       THEN [rc |-> SQLITE_CANTOPEN, h |-> h, handles |-> opened, fs |-> files]
       ELSE [rc |-> SQLITE_OK, h |-> h, handles |-> opened,
             fs |-> IF files[path].exists THEN files
                    ELSE [files EXCEPT ![path].exists = TRUE]]

(* sqlite3_close(p): refused with SQLITE_BUSY, the handle left open, while the
   handle has unfinalized statements. *)
sqlite3_close(h, hs, st) ==
  IF h = 0 THEN [rc |-> SQLITE_OK, handles |-> hs]
  ELSE IF \E s \in StmtIds : st[s].open /\ st[s].db = h
    THEN [rc |-> SQLITE_BUSY, handles |-> hs]
    ELSE [rc |-> SQLITE_OK, handles |-> [hs EXCEPT ![h] = ClosedHandle]]

(* The tables a handle reads and writes *)
TablesOf(h, files, hs) ==
  IF h = 0 THEN EmptyTables ELSE files[hs[h].path].tables

---------------------------------------------------------------------------
(* The engine: statements *)

(* sqlite3_prepare_v2(db, sql, -1, &stmtPtr, nullptr): stmtPtr stays null when
   the text does not compile (no such table, no such column). *)
sqlite3_prepare_v2(h, sql, st, tabs) ==
  IF ~(tabs[sql.table].exists /\ sql.whereCol <= Len(tabs[sql.table].cols))
    THEN [rc |-> SQLITE_ERROR, s |-> 0, stmts |-> st]
    ELSE LET s == Lowest(FreeStmts(st))
         IN [rc |-> SQLITE_OK, s |-> s,
             stmts |-> [st EXCEPT ![s] =
                          [open |-> TRUE, db |-> h, sql |-> sql,
                           cols |-> tabs[sql.table].cols,
                           param |-> NullValue, cursor |-> 0,
                           state |-> "ready", expired |-> FALSE]]]

(* sqlite3_finalize(p): a no-op on nullptr *)
sqlite3_finalize(s, st) ==
  IF s = 0 THEN st ELSE [st EXCEPT ![s] = ClosedStmt]

sqlite3_column_count(s, st) == IF s = 0 THEN 0 ELSE Len(st[s].cols)

sqlite3_column_name(s, i, st) == st[s].cols[i + 1]

(* The rows the statement's SELECT yields, in engine (rowid) order.  An
   unbound parameter is NULL, and nothing equals NULL. *)
ResultRows(q, tabs) ==
  LET t == tabs[q.sql.table]
      Matches(r) == q.param.type # "NULL" /\ r[q.sql.whereCol] = q.param
  IN IF q.sql.whereCol = 0 THEN t.rows ELSE SelectSeq(t.rows, Matches)

(* sqlite3_step(p): SQLITE_MISUSE on nullptr; SQLITE_ROW per result row, then
   SQLITE_DONE.  A statement that has run to its end is halted, not ready: the
   next step starts it over, but it takes no binding until it is reset.
   SQLITE_ERROR when the table was dropped since the statement was prepared:
   the first such step runs the statement, which halts on the changed schema
   and is marked expired when it cannot be prepared again; a later step finds
   the mark before it runs anything, after the reset a halted statement gets,
   and leaves the statement ready.  Preparing it again on a table that exists
   (anew) clears the mark. *)
sqlite3_step(s, st, tabs) ==
  IF s = 0 THEN [rc |-> SQLITE_MISUSE, stmts |-> st]
  ELSE IF ~tabs[st[s].sql.table].exists
    THEN [rc |-> SQLITE_ERROR,
          stmts |-> [st EXCEPT ![s].cursor = 0,
                               ![s].state = IF st[s].expired THEN "ready"
                                            ELSE "halt",
                               ![s].expired = TRUE]]
  ELSE IF st[s].cursor < Len(ResultRows(st[s], tabs))
    THEN [rc |-> SQLITE_ROW,
          stmts |-> [st EXCEPT ![s].cursor = @ + 1, ![s].state = "run",
                               ![s].expired = FALSE]]
    ELSE [rc |-> SQLITE_DONE,
          stmts |-> [st EXCEPT ![s].cursor = 0, ![s].state = "halt",
                               ![s].expired = FALSE]]

(* sqlite3_column_text(p, i) of the current row: the value as text, and a null
   pointer for a NULL value or a column out of range. *)
sqlite3_column_text(s, i, st, tabs) ==
  LET row == ResultRows(st[s], tabs)[st[s].cursor]
  IN IF i < Len(row) THEN ValueText(row[i + 1]) ELSE NullPtr

(* sqlite3_reset(p): back to the first row, ready to be bound and stepped *)
sqlite3_reset(s, st) == [st EXCEPT ![s].cursor = 0, ![s].state = "ready"]

(* sqlite3_bind_text(p, position, text, -1, SQLITE_TRANSIENT): SQLITE_MISUSE
   on a statement that was stepped and not reset, SQLITE_RANGE on a position
   that is no placeholder *)
sqlite3_bind_text(s, position, text, st) ==
  IF st[s].state # "ready" THEN [rc |-> SQLITE_MISUSE, stmts |-> st]
  ELSE IF position >= 1 /\ position <= (IF st[s].sql.whereCol = 0 THEN 0 ELSE 1)
    THEN [rc |-> SQLITE_OK, stmts |-> [st EXCEPT ![s].param = TextValue(text)]]
    ELSE [rc |-> SQLITE_RANGE, stmts |-> st]

(* One statement of a script, in autocommit mode *)
ApplyStatement(q, tabs) ==
  LET t == tabs[q.table]
      fail == [rc |-> SQLITE_ERROR, tables |-> tabs]
      same == [rc |-> SQLITE_OK, tables |-> tabs]
  IN CASE q.op = "CREATE" ->
            IF t.exists THEN (IF q.guard THEN same ELSE fail)
            ELSE [rc |-> SQLITE_OK,
                  tables |-> [tabs EXCEPT ![q.table] =
                     [exists |-> TRUE, cols |-> q.cols, rows |-> <<>>]]]
       [] q.op = "INSERT" ->
            IF ~t.exists \/ Len(q.vals) # Len(t.cols) THEN fail
            ELSE [rc |-> SQLITE_OK,
                  tables |-> [tabs EXCEPT ![q.table].rows = Append(@, q.vals)]]
       [] OTHER ->
            IF ~t.exists THEN (IF q.guard THEN same ELSE fail)
            ELSE [rc |-> SQLITE_OK,
                  tables |-> [tabs EXCEPT ![q.table] = NoTable]]

(* sqlite3_exec(db, sql, nullptr, nullptr, nullptr): SQLITE_MISUSE on a null
   handle; otherwise the statements run in order up to the first that fails.
   trace is the result code of every statement that ran. *)
RECURSIVE ExecLoop(_, _, _, _)
ExecLoop(script, i, tabs, trace) ==
  IF i > Len(script) THEN [rc |-> SQLITE_OK, tables |-> tabs, trace |-> trace]
  ELSE LET r == ApplyStatement(script[i], tabs)
       IN IF r.rc # SQLITE_OK
            THEN [rc |-> r.rc, tables |-> tabs, trace |-> Append(trace, r.rc)]
            ELSE ExecLoop(script, i + 1, r.tables, Append(trace, r.rc))

sqlite3_exec(h, script, tabs) ==
  IF h = 0 THEN [rc |-> SQLITE_MISUSE, tables |-> tabs, trace |-> <<>>]
  ELSE ExecLoop(script, 1, tabs, <<>>)

---------------------------------------------------------------------------
(* CrudWrapper's deleters and private methods *)

(* Sqlite3Closer that closes the handle whatever statements it still has *)
Sqlite3Closer_ClosesBusyHandle(p, hs, st) ==
  IF p = 0 THEN hs ELSE [hs EXCEPT ![p] = ClosedHandle]

(* Sqlite3Closer::operator() *)
Sqlite3Closer(p, hs, st) == sqlite3_close(p, hs, st).handles

(* Sqlite3StmtCloser that never finalizes *)
Sqlite3StmtCloser_NoFinalize(p, st) == st

(* Sqlite3StmtCloser::operator() *)
Sqlite3StmtCloser(p, st) == sqlite3_finalize(p, st)

(* initializeStatement(statement, db) *)
initializeStatement(statement, db, st, tabs) ==
  IF db = 0 THEN [s |-> 0, stmts |-> st]
  ELSE LET r == sqlite3_prepare_v2(db, statement, st, tabs)
       IN [s |-> r.s, stmts |-> r.stmts]

(* buildSelectAllFromTableStatement(tableName): "SELECT * FROM " + tableName *)
buildSelectAllFromTableStatement(tableName, db, st, tabs) ==
  initializeStatement(SelectAll(tableName), db, st, tabs)

(* getColumnsNamesFromStatement whose loop stops one column short *)
getColumnsNamesFromStatement_OffByOne(s, st) ==
  IF s = 0 THEN <<>>
  ELSE LET noOfColumns == sqlite3_column_count(s, st)
       IN [i \in 1..(noOfColumns - 1) |-> sqlite3_column_name(s, i - 1, st)]

(* getColumnsNamesFromStatement(stmt) *)
getColumnsNamesFromStatement(s, st) ==
  IF s = 0 THEN <<>>
  ELSE LET noOfColumns == sqlite3_column_count(s, st)
       IN [i \in 1..noOfColumns |-> sqlite3_column_name(s, i - 1, st)]

(* The inner loop of getRowsFromStatement: one pointer per column *)
RowPointers(s, noOfColumns, st, tabs) ==
  [i \in 1..noOfColumns |-> sqlite3_column_text(s, i - 1, st, tabs)]

(* The while loop of getRowsFromStatement.  outcome is "ub" when a
   std::string is constructed from a null pointer. *)
RECURSIVE StepRows(_, _, _, _, _, _)
StepRows(s, noOfColumns, st, tabs, rows, steps) ==
  LET r == sqlite3_step(s, st, tabs)
  IN IF r.rc # SQLITE_ROW
       THEN [outcome |-> "returned", rows |-> rows, stmts |-> r.stmts,
             steps |-> steps + 1]
       ELSE LET ptrs == RowPointers(s, noOfColumns, r.stmts, tabs)
            IN IF \E i \in 1..noOfColumns : ptrs[i].null
                 THEN [outcome |-> "ub", rows |-> rows, stmts |-> r.stmts,
                       steps |-> steps + 1]
                 ELSE StepRows(s, noOfColumns, r.stmts, tabs,
                               Append(rows, [i \in 1..noOfColumns |-> ptrs[i].str]),
                               steps + 1)

(* getRowsFromStatement that returns no rows at all for a null statement *)
getRowsFromStatement_NullEarlyReturn(s, st, tabs) ==
  IF s = 0
    THEN [outcome |-> "returned", rows |-> <<>>, stmts |-> st, steps |-> 0]
    ELSE LET header == [i \in 1..sqlite3_column_count(s, st) |->
                          sqlite3_column_name(s, i - 1, st)]
         IN StepRows(s, Len(header), st, tabs, <<header>>, 0)

(* getRowsFromStatement(stmt) *)
getRowsFromStatement(s, st, tabs) ==
  LET header == getColumnsNamesFromStatement(s, st)
  IN StepRows(s, Len(header), st, tabs, <<header>>, 0)

---------------------------------------------------------------------------
(* CrudWrapper and PreparedStatement: the public operations *)

(* The constructor without the check that the path exists *)
CrudWrapperCtor_NoPathCheck(path, files, hs) ==
  LET o == sqlite3_open(path, files, hs)
  IN IF o.rc # SQLITE_OK
       THEN [outcome |-> "runtime_error", m_db |-> 0, fs |-> o.fs,
             handles |-> o.handles, opens |-> 1]
       ELSE [outcome |-> "returned", m_db |-> o.h, fs |-> o.fs,
             handles |-> o.handles, opens |-> 1]

(* CrudWrapper::CrudWrapper(path).  opens counts the calls of sqlite3_open. *)
CrudWrapperCtor(path, files, hs) ==
  IF ~PathExists(path, files)
    THEN [outcome |-> "filesystem_error", m_db |-> 0, fs |-> files,
          handles |-> hs, opens |-> 0]
    ELSE LET o == sqlite3_open(path, files, hs)
         IN IF o.rc # SQLITE_OK
              THEN [outcome |-> "runtime_error", m_db |-> 0, fs |-> o.fs,
                    handles |-> o.handles, opens |-> 1]
              ELSE [outcome |-> "returned", m_db |-> o.h, fs |-> o.fs,
                    handles |-> o.handles, opens |-> 1]

(* PreparedStatement::bindText(text, position).  calls counts the engine
   calls made. *)
bindText(s, text, position, st) ==
  IF s = 0 THEN [ok |-> FALSE, stmts |-> st, calls |-> 0]
  ELSE LET b == sqlite3_bind_text(s, position, text, sqlite3_reset(s, st))
       IN [ok |-> (b.rc = SQLITE_OK), stmts |-> b.stmts, calls |-> 2]

(* executeStatements that reports success whatever sqlite3_exec returned *)
executeStatements_IgnoresCode(db, statements, tabs) ==
  LET e == sqlite3_exec(db, statements, tabs)
  IN [ok |-> TRUE, tables |-> e.tables, trace |-> e.trace]

(* CrudWrapper::executeStatements(statements) *)
executeStatements(db, statements, tabs) ==
  LET e == sqlite3_exec(db, statements, tabs)
  IN [ok |-> (e.rc = SQLITE_OK), tables |-> e.tables, trace |-> e.trace]

NoRet ==
  [op |-> "init", w |-> "", p |-> "", path |-> "", table |-> "",
   outcome |-> "returned", ok |-> FALSE, names |-> <<>>, rows |-> <<>>,
   opens |-> 0, steps |-> 0, prepared |-> 0, trace |-> <<>>, nStmts |-> 0,
   calls |-> 0, text |-> "", position |-> 0, script |-> <<>>]

(* The process runs until undefined behaviour ends it *)
Alive == ret.outcome \notin UBOutcomes

InitialFilesystem ==
  [p \in Paths |->
     [exists |-> p \in {AlbumDb, DirPath}, isDir |-> p = DirPath,
      parent |-> p # MissingPath,
      tables |-> IF p = AlbumDb THEN AlbumTables(AlbumRows) ELSE EmptyTables]]

Init ==
  /\ fs = InitialFilesystem
  /\ handles = [h \in HandleIds |-> ClosedHandle]
  /\ stmts = [s \in StmtIds |-> ClosedStmt]
  /\ objState = [w \in Wrappers |-> "none"]
  /\ m_db = [w \in Wrappers |-> 0]
  /\ m_db_path = [w \in Wrappers |-> ""]
  /\ psState = [p \in PStmts |-> "none"]
  /\ m_stmt = [p \in PStmts |-> 0]
  /\ ret = NoRet

(* CrudWrapper w{path}; a constructor that throws leaves no object *)
Construct(w, path) ==
  /\ Alive
  /\ objState[w] # "live"
  /\ FreeHandles(handles) # {}
  /\ LET c == CrudWrapperCtor(path, fs, handles)
     IN /\ fs' = c.fs
        /\ handles' = c.handles
        /\ IF c.outcome = "returned"
             THEN /\ objState' = [objState EXCEPT ![w] = "live"]
                  /\ m_db' = [m_db EXCEPT ![w] = c.m_db]
                  /\ m_db_path' = [m_db_path EXCEPT ![w] = path]
             ELSE UNCHANGED <<objState, m_db, m_db_path>>
        /\ ret' = [NoRet EXCEPT !.op = "construct", !.w = w, !.path = path,
                                !.outcome = c.outcome, !.opens = c.opens]
  /\ UNCHANGED <<stmts, psState, m_stmt>>

(* CrudWrapper dst{std::move(src)}: the implicitly-declared move constructor
   copies the const m_db_path and moves m_db, leaving src.m_db null. *)
Move(src, dst) ==
  /\ Alive
  /\ src # dst
  /\ objState[src] = "live"
  /\ objState[dst] # "live"
  /\ objState' = [objState EXCEPT ![dst] = "live"]
  /\ m_db' = [m_db EXCEPT ![dst] = m_db[src], ![src] = 0]
  /\ m_db_path' = [m_db_path EXCEPT ![dst] = m_db_path[src]]
  /\ ret' = [NoRet EXCEPT !.op = "move", !.w = dst]
  /\ UNCHANGED <<fs, handles, stmts, psState, m_stmt>>

(* ~CrudWrapper: m_db's deleter runs when m_db is not null *)
Destroy(w) ==
  /\ Alive
  /\ objState[w] = "live"
  /\ handles' = Sqlite3Closer(m_db[w], handles, stmts)
  /\ objState' = [objState EXCEPT ![w] = "none"]
  /\ m_db' = [m_db EXCEPT ![w] = 0]
  /\ m_db_path' = [m_db_path EXCEPT ![w] = ""]
  /\ ret' = [NoRet EXCEPT !.op = "destroy", !.w = w]
  /\ UNCHANGED <<fs, stmts, psState, m_stmt>>

(* auto p = w.prepareStatement(statement) *)
PrepareStatement(w, p, statement) ==
  /\ Alive
  /\ objState[w] = "live"
  /\ psState[p] # "live"
  /\ LET i == initializeStatement(statement, m_db[w], stmts,
                                  TablesOf(m_db[w], fs, handles))
     IN /\ Cardinality({s \in StmtIds : i.stmts[s].open}) <= MaxHeldStmts
        /\ stmts' = i.stmts
        /\ m_stmt' = [m_stmt EXCEPT ![p] = i.s]
        /\ ret' = [NoRet EXCEPT !.op = "prepareStatement", !.w = w, !.p = p,
                                !.table = statement.table, !.prepared = i.s]
  /\ psState' = [psState EXCEPT ![p] = "live"]
  /\ UNCHANGED <<fs, handles, objState, m_db, m_db_path>>

(* PreparedStatement dst{std::move(src)}: the implicitly-declared move
   constructor moves m_stmt, leaving src.m_stmt null. *)
MoveStatement(src, dst) ==
  /\ Alive
  /\ src # dst
  /\ psState[src] = "live"
  /\ psState[dst] # "live"
  /\ psState' = [psState EXCEPT ![dst] = "live"]
  /\ m_stmt' = [m_stmt EXCEPT ![dst] = m_stmt[src], ![src] = 0]
  /\ ret' = [NoRet EXCEPT !.op = "moveStatement", !.p = dst]
  /\ UNCHANGED <<fs, handles, stmts, objState, m_db, m_db_path>>

(* dst = std::move(src): the implicitly-declared move assignment; m_stmt's
   move assignment takes src's pointer, leaving src.m_stmt null, and runs the
   deleter on the statement dst held. *)
MoveAssignStatement(src, dst) ==
  /\ Alive
  /\ src # dst
  /\ psState[src] = "live"
  /\ psState[dst] = "live"
  /\ stmts' = Sqlite3StmtCloser(m_stmt[dst], stmts)
  /\ m_stmt' = [m_stmt EXCEPT ![dst] = m_stmt[src], ![src] = 0]
  /\ ret' = [NoRet EXCEPT !.op = "moveAssignStatement", !.p = dst]
  /\ UNCHANGED <<fs, handles, objState, m_db, m_db_path, psState>>

(* p = w.prepareStatement(statement) on a live p: the new statement is
   prepared while p still holds the old one, which the move assignment then
   finalizes. *)
AssignStatement(w, p, statement) ==
  /\ Alive
  /\ objState[w] = "live"
  /\ psState[p] = "live"
  /\ LET i == initializeStatement(statement, m_db[w], stmts,
                                  TablesOf(m_db[w], fs, handles))
     IN /\ Cardinality({s \in StmtIds :
                           Sqlite3StmtCloser(m_stmt[p], i.stmts)[s].open})
             <= MaxHeldStmts
        /\ stmts' = Sqlite3StmtCloser(m_stmt[p], i.stmts)
        /\ m_stmt' = [m_stmt EXCEPT ![p] = i.s]
        /\ ret' = [NoRet EXCEPT !.op = "assignStatement", !.w = w, !.p = p,
                                !.table = statement.table, !.prepared = i.s]
  /\ UNCHANGED <<fs, handles, objState, m_db, m_db_path, psState>>

(* p.bindText(text, position) *)
BindText(p, text, position) ==
  /\ Alive
  /\ psState[p] = "live"
  /\ LET b == bindText(m_stmt[p], text, position, stmts)
     IN /\ stmts' = b.stmts
        /\ ret' = [NoRet EXCEPT !.op = "bindText", !.p = p, !.ok = b.ok,
                                !.text = text, !.position = position,
                                !.calls = b.calls]
  /\ UNCHANGED <<fs, handles, objState, m_db, m_db_path, psState, m_stmt>>

(* ~PreparedStatement: m_stmt's deleter runs when m_stmt is not null *)
DestroyStatement(p) ==
  /\ Alive
  /\ psState[p] = "live"
  /\ stmts' = Sqlite3StmtCloser(m_stmt[p], stmts)
  /\ psState' = [psState EXCEPT ![p] = "none"]
  /\ m_stmt' = [m_stmt EXCEPT ![p] = 0]
  /\ ret' = [NoRet EXCEPT !.op = "destroyStatement", !.p = p]
  /\ UNCHANGED <<fs, handles, objState, m_db, m_db_path>>

(* w.peekColumnsNames(tableName): the temporary statement is finalized when
   the full expression ends *)
PeekColumnsNames(w, tableName) ==
  /\ Alive
  /\ objState[w] = "live"
  /\ LET b == buildSelectAllFromTableStatement(
                 tableName, m_db[w], stmts, TablesOf(m_db[w], fs, handles))
     IN /\ stmts' = Sqlite3StmtCloser(b.s, b.stmts)
        /\ ret' = [NoRet EXCEPT !.op = "peekColumnsNames", !.w = w,
                                !.table = tableName, !.prepared = b.s,
                                !.names = getColumnsNamesFromStatement(b.s, b.stmts)]
  /\ UNCHANGED <<fs, handles, objState, m_db, m_db_path, psState, m_stmt>>

(* w.getRows(tableName) *)
GetRows(w, tableName) ==
  /\ Alive
  /\ objState[w] = "live"
  /\ LET tabs == TablesOf(m_db[w], fs, handles)
         b == buildSelectAllFromTableStatement(tableName, m_db[w], stmts, tabs)
         g == getRowsFromStatement(b.s, b.stmts, tabs)
     IN IF g.outcome = "ub"
          THEN /\ \E o \in UBOutcomes :
                    ret' = [NoRet EXCEPT !.op = "getRows", !.w = w,
                                         !.table = tableName, !.outcome = o,
                                         !.prepared = b.s, !.steps = g.steps]
               /\ stmts' = g.stmts
          ELSE /\ stmts' = Sqlite3StmtCloser(b.s, g.stmts)
               /\ ret' = [NoRet EXCEPT !.op = "getRows", !.w = w,
                                       !.table = tableName, !.prepared = b.s,
                                       !.rows = g.rows, !.steps = g.steps]
  /\ UNCHANGED <<fs, handles, objState, m_db, m_db_path, psState, m_stmt>>

(* w.getRows(p): steps p's own statement, against the database of the handle
   the statement was prepared on *)
GetRowsStmt(w, p) ==
  /\ Alive
  /\ objState[w] = "live"
  /\ psState[p] = "live"
  /\ LET s == m_stmt[p]
         tabs == TablesOf(IF s = 0 THEN 0 ELSE stmts[s].db, fs, handles)
         g == getRowsFromStatement(s, stmts, tabs)
     IN /\ stmts' = g.stmts
        /\ IF g.outcome = "ub"
             THEN \E o \in UBOutcomes :
                    ret' = [NoRet EXCEPT !.op = "getRowsStmt", !.w = w, !.p = p,
                                         !.outcome = o, !.steps = g.steps]
             ELSE ret' = [NoRet EXCEPT !.op = "getRowsStmt", !.w = w, !.p = p,
                                       !.rows = g.rows, !.steps = g.steps]
  /\ UNCHANGED <<fs, handles, objState, m_db, m_db_path, psState, m_stmt>>

(* w.executeStatements(statements) *)
ExecuteStatements(w, statements) ==
  /\ Alive
  /\ objState[w] = "live"
  /\ LET h == m_db[w]
         tabs == TablesOf(h, fs, handles)
         e == executeStatements(h, statements, tabs)
     IN /\ \A t \in TableNames :
             IF e.tables[t] = tabs[t] THEN TRUE
             ELSE Len(e.tables[t].rows) <= MaxRows
        /\ fs' = IF h = 0 THEN fs
                 ELSE [fs EXCEPT ![handles[h].path].tables = e.tables]
        /\ ret' = [NoRet EXCEPT !.op = "executeStatements", !.w = w,
                                !.script = statements,
                                !.ok = e.ok, !.trace = e.trace,
                                !.nStmts = Len(statements)]
  /\ UNCHANGED <<handles, stmts, objState, m_db, m_db_path, psState, m_stmt>>

Next ==
  \/ \E path \in Paths : Construct(FirstWrapper, path)
  \/ \E src \in Wrappers, dst \in Wrappers : Move(src, dst)
  \/ \E w \in Wrappers : Destroy(w)
  \/ \E w \in Wrappers, q \in PreparedSqls : PrepareStatement(w, FirstPStmt, q)
  \/ \E src \in PStmts, dst \in PStmts : MoveStatement(src, dst)
  \/ \E src \in PStmts, dst \in PStmts : MoveAssignStatement(src, dst)
  \/ \E w \in Wrappers, p \in PStmts, q \in PreparedSqls : AssignStatement(w, p, q)
  \/ \E p \in PStmts, text \in BindTexts, position \in BindPositions :
       BindText(p, text, position)
  \/ \E p \in PStmts : DestroyStatement(p)
  \/ \E w \in Wrappers, t \in ReadTables : PeekColumnsNames(w, t)
  \/ \E w \in Wrappers, t \in ReadTables : GetRows(w, t)
  \/ \E w \in Wrappers, p \in PStmts : GetRowsStmt(w, p)
  \/ \E w \in Wrappers, q \in Scripts : ExecuteStatements(w, q)

Spec == Init /\ [][Next]_vars

---------------------------------------------------------------------------
(* Properties *)

(* The table exists in the database the wrapper is connected to *)
TableExists(w, t) ==
  m_db[w] # 0 /\ TablesOf(m_db[w], fs, handles)[t].exists

StoredTable(w, t) == TablesOf(m_db[w], fs, handles)[t]

OpenStmts == {s \in StmtIds : stmts[s].open}
OpenHandles == {h \in HandleIds : handles[h].open}
HeldStmts == {m_stmt[p] : p \in {q \in PStmts : psState[q] = "live"}} \ {0}
IsRead == ret.op \in {"peekColumnsNames", "getRows"}

(* C1: construction on a path that does not exist fails with
   filesystem_error without sqlite3_open being called; on a path that exists
   but that the engine cannot open it fails with runtime_error; in both cases
   no object exists afterwards. *)
C1_ConstructionFailsByCause ==
  ret.op = "construct" =>
    /\ ~InitialFilesystem[ret.path].exists =>
         /\ ret.outcome = "filesystem_error"
         /\ ret.opens = 0
         /\ objState[ret.w] = "none" /\ m_db[ret.w] = 0
    /\ InitialFilesystem[ret.path].exists /\ InitialFilesystem[ret.path].isDir =>
         /\ ret.outcome = "runtime_error"
         /\ ret.opens = 1
         /\ objState[ret.w] = "none" /\ m_db[ret.w] = 0

C1_Witness ==
  /\ ret.op = "construct"
  /\ ret.path = DirPath
  /\ ret.outcome = "runtime_error"
  /\ objState[ret.w] = "none"

(* C2: construction on the valid database file succeeds, and every constructed
   wrapper holds a non-null handle until it is destroyed, whatever operations
   and transfers are performed. *)
C2_HandleNeverNull ==
  /\ ret.op = "construct" /\ ret.path = AlbumDb => ret.outcome = "returned"
  /\ \A w \in Wrappers : objState[w] = "live" => m_db[w] # 0

(* C3: for a table that does not exist, peekColumnsNames returns the empty
   list and getRows returns exactly one row, which is empty; neither call
   fails, and no data row is produced. *)
C3_MissingTableReadsEmpty ==
  IsRead /\ ~TableExists(ret.w, ret.table) =>
    /\ ret.outcome = "returned"
    /\ ret.prepared = 0
    /\ ret.op = "peekColumnsNames" => ret.names = <<>>
    /\ ret.op = "getRows" => ret.rows = << <<>> >>

C3_Witness ==
  /\ ret.op = "getRows"
  /\ m_db[ret.w] # 0
  /\ ~TableExists(ret.w, ret.table)
  /\ ret.rows = << <<>> >>
  /\ ret.steps = 1

(* C4: for an existing table, peekColumnsNames returns the declared column
   names in declared order, whatever number of rows the table holds, and
   steps no statement. *)
C4_PeekReturnsDeclaredColumns ==
  ret.op = "peekColumnsNames" /\ TableExists(ret.w, ret.table) =>
    /\ ret.outcome = "returned"
    /\ ret.names = StoredTable(ret.w, ret.table).cols
    /\ ret.steps = 0
    /\ \A s \in OpenStmts : stmts[s].cursor = 0

C4_Witness ==
  /\ ret.op = "peekColumnsNames"
  /\ TableExists(ret.w, ret.table)
  /\ Len(StoredTable(ret.w, ret.table).rows) >= 2
  /\ ret.names = NewTableCols

(* C5: for an existing table, getRows returns the column names as first row,
   then one row per stored row in engine order, each as long as the header
   and holding the text of the stored values, whatever their storage class. *)
C5_GetRowsHeaderThenStoredRows ==
  ret.op = "getRows" /\ TableExists(ret.w, ret.table) =>
    LET t == StoredTable(ret.w, ret.table)
    IN /\ ret.outcome = "returned"
       /\ Len(ret.rows) = 1 + Len(t.rows)
       /\ ret.rows[1] = t.cols
       /\ \A i \in 1..Len(t.rows) :
            /\ Len(ret.rows[i + 1]) = Len(t.cols)
            /\ \A j \in 1..Len(t.cols) :
                 ret.rows[i + 1][j] = ValueText(t.rows[i][j]).str

(* What a read returns when it reflects the database as it is *)
ReadReflectsDatabase ==
  /\ ret.outcome = "returned"
  /\ IF TableExists(ret.w, ret.table)
       THEN LET t == StoredTable(ret.w, ret.table)
            IN /\ ret.op = "peekColumnsNames" => ret.names = t.cols
               /\ ret.op = "getRows" =>
                    ret.rows = <<t.cols>> \o
                      [i \in 1..Len(t.rows) |->
                         [j \in 1..Len(t.cols) |-> ValueText(t.rows[i][j]).str]]
       ELSE /\ ret.op = "peekColumnsNames" => ret.names = <<>>
            /\ ret.op = "getRows" => ret.rows = << <<>> >>

(* C6: when executeStatements has returned true, the very next getRows or
   peekColumnsNames on the same wrapper reflects the statements: header plus
   the inserted rows in insertion order for a table that exists, the
   non-existent result for one that was dropped. *)
C6_ExecReflectedByNextRead ==
  [][ (ret.op = "executeStatements" /\ ret.ok /\ IsRead' /\ ret'.w = ret.w)
        => ReadReflectsDatabase' ]_vars

(* C7: executeStatements returns true exactly when every statement of the
   text ran and succeeded, false otherwise; it raises nothing and returns no
   rows and no names. *)
C7_ExecuteReturnsAllSucceeded ==
  ret.op = "executeStatements" =>
    /\ ret.outcome = "returned"
    /\ ret.ok <=> /\ Len(ret.trace) = ret.nStmts
                  /\ \A i \in 1..Len(ret.trace) : ret.trace[i] = SQLITE_OK
    /\ ret.rows = <<>> /\ ret.names = <<>>

C7_Witness ==
  /\ ret.op = "executeStatements"
  /\ ~ret.ok
  /\ Len(ret.trace) >= 2
  /\ ret.trace[1] = SQLITE_OK

(* C8: peekColumnsNames and getRows on a table name prepare a statement of
   their own and finalize it before they return, so the open statements of
   the engine are exactly those held by live PreparedStatement objects. *)
C8_OnlyHeldStatementsOpen ==
  Alive =>
    /\ OpenStmts = HeldStmts
    /\ IsRead =>
         /\ ret.prepared # 0 <=> TableExists(ret.w, ret.table)
         /\ ret.prepared \notin HeldStmts

C8_Witness ==
  /\ ret.op = "getRows"
  /\ ret.outcome = "returned"
  /\ ret.prepared # 0
  /\ HeldStmts # {}
  /\ OpenStmts = HeldStmts

(* A live wrapper owns the handle *)
Owned(h) == \E w \in Wrappers : objState[w] = "live" /\ m_db[w] = h

(* C9: a prepared statement never outlives the handle it was prepared on: no
   statement is unfinalized on a handle that is closed, and every statement
   bindText or getRows has just used is on a handle that is open, also once
   the wrapper that created it is destroyed. *)
C9_StatementNeverOutlivesHandle ==
  /\ \A s \in OpenStmts : stmts[s].db \in OpenHandles
  /\ (ret.op \in {"bindText", "getRowsStmt"} /\ m_stmt[ret.p] # 0) =>
       /\ m_stmt[ret.p] \in OpenStmts
       /\ stmts[m_stmt[ret.p]].db \in OpenHandles

C9_Witness ==
  /\ ret.op = "bindText"
  /\ ret.ok
  /\ m_stmt[ret.p] \in OpenStmts
  /\ ~Owned(stmts[m_stmt[ret.p]].db)
  /\ \A w \in Wrappers : objState[w] = "none"

(* C10: no engine handle is open unless a live wrapper owns it. *)
C10_NoHandleOpenWithoutOwner ==
  \A h \in OpenHandles :
    \E w \in Wrappers : objState[w] = "live" /\ m_db[w] = h

(* The text of stored rows, each cut to n columns *)
RowsAsText(rows, n) ==
  [i \in 1..Len(rows) |-> [j \in 1..n |-> ValueText(rows[i][j]).str]]

(* What SELECT * FROM q.table WHERE column q.whereCol = text yields, under
   the header *)
ResultSetFor(q, text, tabs) ==
  LET t == tabs[q.table]
      Hit(r) == r[q.whereCol] = TextValue(text)
  IN <<t.cols>> \o RowsAsText(SelectSeq(t.rows, Hit), Len(t.cols))

(* C11: bindText on a null statement returns false without an engine call;
   and whenever bindText(b, p) has succeeded, whatever was bound and stepped
   before, the getRows that follows on that statement returns the header and
   the complete result set for b, from its first row. *)
C11_RebindingRestartsStatement ==
  [][ /\ (ret'.op = "bindText" /\ m_stmt[ret'.p] = 0) =>
           (~ret'.ok /\ ret'.calls = 0)
      /\ (ret.op = "bindText" /\ ret.ok /\ ret'.op = "getRowsStmt"
            /\ ret'.p = ret.p) =>
           LET q == stmts[m_stmt[ret.p]]
               tabs == TablesOf(q.db, fs, handles)
           IN tabs[q.sql.table].exists =>
                /\ ret'.outcome = "returned"
                /\ ret'.rows = ResultSetFor(q.sql, ret.text, tabs) ]_vars

(* The tables after the first n statements of a script *)
RECURSIVE ApplyPrefix(_, _, _)
ApplyPrefix(script, n, tabs) ==
  IF n = 0 THEN tabs
  ELSE ApplyStatement(script[n], ApplyPrefix(script, n - 1, tabs)).tables

(* C12: when executeStatements returns false because its k-th statement
   failed, the database holds the effects of statements 1..k-1 and of no
   later statement, and the read that follows on the same wrapper observes
   exactly that. *)
C12_FailedScriptKeepsPrefix ==
  [][ /\ (ret'.op = "executeStatements" /\ ~ret'.ok /\ Len(ret'.trace) >= 1) =>
           TablesOf(m_db[ret'.w], fs', handles') =
             ApplyPrefix(ret'.script, Len(ret'.trace) - 1,
                         TablesOf(m_db[ret'.w], fs, handles))
      /\ (ret.op = "executeStatements" /\ ~ret.ok /\ Len(ret.trace) >= 1
            /\ IsRead' /\ ret'.w = ret.w) =>
           ReadReflectsDatabase' ]_vars

=============================================================================
